---------------------------- MODULE Spec2Model ----------------------------
(***************************************************************************)
(* Kinetic analysis pipeline of the acetone-iodination repository:         *)
(*   rate_calculator.KineticAnalyzer (schema normalisation, rate           *)
(*   estimation with the robust fallback, salt correction),                *)
(*   arrhenius_plotter.plot_arrhenius and the batch loops of               *)
(*   orchestrator.main and dashboard.py.                                   *)
(*                                                                         *)
(* Floating point values are modelled exactly: a finite value is a reduced *)
(* fraction, and the three non-finite values numpy produces (nan, +inf,    *)
(* -inf) are values of their own.  Rounding is not modelled.               *)
(***************************************************************************)
EXTENDS Integers, Sequences, FiniteSets, TLC

(***************************************************************************)
(* numpy float64 arithmetic                                                *)
(***************************************************************************)
Abs(i) == IF i < 0 THEN -i ELSE i

RECURSIVE Gcd(_, _)
Gcd(a, b) == IF b = 0 THEN a ELSE Gcd(b, a % b)

NaN == [k |-> "nan", n |-> 0, d |-> 1]
PInf == [k |-> "pinf", n |-> 0, d |-> 1]
NInf == [k |-> "ninf", n |-> 0, d |-> 1]

\* the finite value n/d (d # 0), reduced, with a positive denominator
Fin(n, d) ==
    LET g == Gcd(Abs(n), Abs(d))
        s == IF d < 0 THEN -1 ELSE 1
    IN  [k |-> "fin", n |-> (s * n) \div g, d |-> (s * d) \div g]

Int2F(i) == [k |-> "fin", n |-> i, d |-> 1]

IsFinite(a) == a.k = "fin"

FNeg(a) ==
    CASE a.k = "fin" -> [k |-> "fin", n |-> -a.n, d |-> a.d]
      [] a.k = "pinf" -> NInf
      [] a.k = "ninf" -> PInf
      [] OTHER -> NaN

\* the arithmetic below is used on finite operands only, except FDiv
FAdd(a, b) == Fin(a.n * b.d + b.n * a.d, a.d * b.d)
FSub(a, b) == Fin(a.n * b.d - b.n * a.d, a.d * b.d)
FMul(a, b) == Fin(a.n * b.n, a.d * b.d)
FAbs(a) == [k |-> "fin", n |-> Abs(a.n), d |-> a.d]

\* numpy true division: a finite value over zero is +-inf or nan (a
\* RuntimeWarning, not an exception); nan propagates
FDiv(a, b) ==
    CASE a.k = "nan" \/ b.k = "nan" -> NaN
      [] a.k = "fin" /\ b.k = "fin" ->
            IF b.n # 0 THEN Fin(a.n * b.d, a.d * b.n)
            ELSE IF a.n > 0 THEN PInf
            ELSE IF a.n < 0 THEN NInf
            ELSE NaN
      [] a.k = "fin" -> Int2F(0)
      [] b.k = "fin" ->
            IF (a.k = "pinf") = (b.n >= 0) THEN PInf ELSE NInf
      [] OTHER -> NaN

\* IEEE comparisons: every comparison with nan is false
FLt(a, b) ==
    CASE a.k = "nan" \/ b.k = "nan" -> FALSE
      [] a.k = "fin" /\ b.k = "fin" -> a.n * b.d < b.n * a.d
      [] a.k = "ninf" -> b.k # "ninf"
      [] b.k = "pinf" -> a.k # "pinf"
      [] OTHER -> FALSE

FLe(a, b) == FLt(a, b) \/ (a.k # "nan" /\ a = b)

(***************************************************************************)
(* Statistics helpers (numpy / scipy / sklearn)                            *)
(***************************************************************************)
RECURSIVE FSum(_)
FSum(seq) == IF seq = <<>> THEN Int2F(0) ELSE FAdd(Head(seq), FSum(Tail(seq)))

AllFinite(seq) == \A i \in 1..Len(seq) : IsFinite(seq[i])

FMean(seq) == FDiv(FSum(seq), Int2F(Len(seq)))

\* sum over i of (a[i] - mean a) * (b[i] - mean b): n times the biased
\* covariance np.cov(a, b, bias=1) computes
CoSum(a, b) ==
    LET ma == FMean(a)
        mb == FMean(b)
    IN  FSum([i \in 1..Len(a) |-> FMul(FSub(a[i], ma), FSub(b[i], mb))])

\* the k-th smallest value of a non-empty sequence of finite values
KthSmallest(seq, k) ==
    LET vals == {seq[i] : i \in 1..Len(seq)}
    IN  CHOOSE v \in vals :
            /\ Cardinality({i \in 1..Len(seq) : FLt(seq[i], v)}) < k
            /\ Cardinality({i \in 1..Len(seq) : FLe(seq[i], v)}) >= k

\* np.median: the middle value, or the mean of the two middle values
Median(seq) ==
    LET n == Len(seq)
    IN  IF n % 2 = 1 THEN KthSmallest(seq, (n + 1) \div 2)
        ELSE FDiv(FAdd(KthSmallest(seq, n \div 2),
                       KthSmallest(seq, n \div 2 + 1)), Int2F(2))

\* the rows of seq where mask is TRUE, in order
RECURSIVE SelectMask(_, _)
SelectMask(seq, mask) ==
    IF seq = <<>> THEN <<>>
    ELSE IF Head(mask) THEN <<Head(seq)>> \o SelectMask(Tail(seq), Tail(mask))
    ELSE SelectMask(Tail(seq), Tail(mask))

\* the finite case of linregress, from the three sums of squares
LinRegressFrom(xs, ys, ssxm, ssym, ssxym) ==
    [err |-> "",
     slope |-> FDiv(ssxym, ssxm),
     intercept |-> FSub(FMean(ys), FMul(FDiv(ssxym, ssxm), FMean(xs))),
     r2 |-> IF ssym.n = 0 THEN Int2F(0)
            ELSE FDiv(FMul(ssxym, ssxym), FMul(ssxm, ssym))]

\* scipy.stats.linregress(xs, ys): slope, intercept and r_value**2, or the
\* ValueError it raises on empty input and on identical x values
LinRegress(xs, ys) ==
    IF Len(xs) = 0 THEN
        [err |-> "ValueError", slope |-> NaN, intercept |-> NaN, r2 |-> NaN]
    ELSE IF Len(xs) > 1 /\ (\A i \in 1..Len(xs) : xs[i].k # "nan" /\ xs[i] = xs[1]) THEN
        [err |-> "ValueError", slope |-> NaN, intercept |-> NaN, r2 |-> NaN]
    ELSE IF Len(xs) = 1 THEN
        \* ssxm = 0: r is set to 0.0 and the slope is 0/0
        [err |-> "", slope |-> NaN, intercept |-> NaN, r2 |-> Int2F(0)]
    ELSE IF ~(AllFinite(xs) /\ AllFinite(ys)) THEN
        [err |-> "", slope |-> NaN, intercept |-> NaN, r2 |-> NaN]
    ELSE LinRegressFrom(xs, ys, CoSum(xs, xs), CoSum(ys, ys), CoSum(xs, ys))

(***************************************************************************)
(* sklearn.linear_model.RANSACRegressor with its defaults                  *)
(* (LinearRegression, min_samples = 2, absolute loss, threshold = MAD)     *)
(***************************************************************************)
\* RANSACRegressor.max_trials default
MaxTrials == 100

\* LinearRegression.fit on one feature: the least-squares line; a constant
\* feature gives coefficient 0 (minimum-norm solution)
LinearFitFrom(xs, ys, coef) ==
    [coef |-> coef, intercept |-> FSub(FMean(ys), FMul(coef, FMean(xs)))]

LinearFit(xs, ys) ==
    LinearFitFrom(xs, ys, IF CoSum(xs, xs).n = 0 THEN Int2F(0)
                          ELSE FDiv(CoSum(xs, ys), CoSum(xs, xs)))

Predict(model, xs) ==
    [i \in 1..Len(xs) |-> FAdd(FMul(model.coef, xs[i]), model.intercept)]

\* sklearn.metrics.r2_score (force_finite): nan below two samples
R2From(res, tot) ==
    IF tot.n = 0 THEN (IF res.n = 0 THEN Int2F(1) ELSE Int2F(0))
    ELSE FSub(Int2F(1), FDiv(res, tot))

R2Score(ys, preds) ==
    IF Len(ys) < 2 THEN NaN
    ELSE R2From(FSum([i \in 1..Len(ys) |->
                        FMul(FSub(ys[i], preds[i]), FSub(ys[i], preds[i]))]),
                CoSum(ys, ys))

\* the pairs i < j of 1..n in lexicographic order
RECURSIVE PairsFrom(_, _, _)
PairsFrom(i, j, n) ==
    IF i >= n THEN <<>>
    ELSE IF j > n THEN PairsFrom(i + 1, i + 2, n)
    ELSE <<<<i, j>>>> \o PairsFrom(i, j + 1, n)

\* sample_without_replacement(n, 2, random_state): the t-th draw of the
\* generator's stream selects the subset
SampleSubset(n, stream, t) ==
    PairsFrom(1, 2, n)[(stream[((t - 1) % Len(stream)) + 1]
                           % Len(PairsFrom(1, 2, n))) + 1]

\* _dynamic_max_trials(n_inliers, n_samples, 2, 0.99): the least N with
\* (1 - (n_inliers/n_samples)^2)^N <= 0.01, tabulated for n_samples <= 6
DynamicMaxTrials(nIn, n) ==
    IF nIn = 0 THEN MaxTrials
    ELSE IF nIn = n THEN 1
    ELSE << <<17>>,
            <<40, 8>>,
            <<72, 17, 6>>,
            <<113, 27, 11, 5>>,
            <<164, 40, 17, 8, 4>> >>[n - 1][nIn]

Min(a, b) == IF a < b THEN a ELSE b

\* the samples within the residual threshold of the predictions
InlierMask(ys, pred, thr) ==
    [i \in 1..Len(ys) |-> FLe(FAbs(FSub(ys[i], pred[i])), thr)]

CountTrue(mask) == Cardinality({i \in 1..Len(mask) : mask[i]})

\* the comparison of one trial's consensus set with the best so far:
\* the new best, or the old one when the trial is skipped
Better(best, mask, nIn, score) ==
    IF nIn < best.n THEN best
    ELSE IF nIn = best.n /\ FLt(score, best.score) THEN best
    ELSE [n |-> nIn, score |-> score, mask |-> mask, found |-> TRUE, kept |-> TRUE,
          trials |-> 0]

\* one trial: fit the sampled pair, collect its consensus set, score it
TrialScore(ys, pred, best, mask) ==
    Better([best EXCEPT !.kept = FALSE], mask, CountTrue(mask),
           R2Score(SelectMask(ys, mask), SelectMask(pred, mask)))

TrialPred(ys, thr, best, pred) ==
    TrialScore(ys, pred, best, InlierMask(ys, pred, thr))

TrialOf(xs, ys, thr, best, sub) ==
    TrialPred(ys, thr, best,
              Predict(LinearFit(<<xs[sub[1]], xs[sub[2]]>>,
                                <<ys[sub[1]], ys[sub[2]]>>), xs))

\* the trial loop of RANSACRegressor.fit, from trial t
RECURSIVE RansacLoop(_, _, _, _, _, _, _)
RansacNext(xs, ys, thr, stream, t, maxTrials, nb) ==
    RansacLoop(xs, ys, thr, stream, t + 1,
               IF nb.kept THEN Min(maxTrials, DynamicMaxTrials(nb.n, Len(xs)))
               ELSE maxTrials,
               nb)

RansacLoop(xs, ys, thr, stream, t, maxTrials, best) ==
    IF t > maxTrials THEN [best EXCEPT !.trials = t - 1]
    ELSE RansacNext(xs, ys, thr, stream, t, maxTrials,
                    TrialOf(xs, ys, thr, best, SampleSubset(Len(xs), stream, t)))

\* a variant that scores the final estimator on all samples, score(X, y);
\* property C14 tells it apart from the score of line 94
RansacResultAllSamples(xs, ys, best, est) ==
    [err |-> "",
     slope |-> est.coef,
     intercept |-> est.intercept,
     score |-> R2Score(ys, Predict(est, xs)),
     inlier_mask |-> best.mask,
     n_trials |-> best.trials]

\* the final re-fit on the best consensus set and the values read from it
RansacResult(xs, ys, best, est) ==
    [err |-> "",
     slope |-> est.coef,
     intercept |-> est.intercept,
     score |-> R2Score(SelectMask(ys, best.mask),
                       Predict(est, SelectMask(xs, best.mask))),
     inlier_mask |-> best.mask,
     n_trials |-> best.trials]

RansacFinish(xs, ys, best) ==
    IF ~best.found THEN
        [err |-> "ValueError", slope |-> NaN, intercept |-> NaN,
         score |-> NaN, inlier_mask |-> <<>>, n_trials |-> best.trials]
    ELSE RansacResult(xs, ys, best,
                      LinearFit(SelectMask(xs, best.mask), SelectMask(ys, best.mask)))

\* the residual threshold: the median absolute deviation of y
Mad(ys, med) == Median([i \in 1..Len(ys) |-> FAbs(FSub(ys[i], med))])

\* a variant with one generator shared by all fits (random_state left to the
\* process-wide generator): a fit continues the stream where the earlier
\* fits stopped; property C12 tells it apart from the seeding of line 85
CheckRandomStateShared(stream, drawn) ==
    [k \in 1..Len(stream) |-> stream[((k - 1 + drawn) % Len(stream)) + 1]]

\* check_random_state(42) in RANSACRegressor.fit: every fit builds a new
\* generator from the seed, so its draws are the seed's stream from the
\* start, however many draws (drawn) earlier fits have made
CheckRandomState(stream, drawn) == stream

\* RANSACRegressor(random_state=seed).fit(X, y) followed by the reads of
\* inlier_mask_, estimator_.coef_[0], estimator_.intercept_ and
\* score(X[inlier_mask], y[inlier_mask])
RansacFit(xs, ys, stream) ==
    IF ~(AllFinite(xs) /\ AllFinite(ys)) \/ Len(xs) < 2 THEN
        [err |-> "ValueError", slope |-> NaN, intercept |-> NaN,
         score |-> NaN, inlier_mask |-> <<>>, n_trials |-> 0]
    ELSE RansacFinish(xs, ys,
            RansacLoop(xs, ys, Mad(ys, Median(ys)), stream, 1, MaxTrials,
                       [n |-> 1, score |-> NInf, mask |-> <<>>,
                        found |-> FALSE, kept |-> FALSE, trials |-> 0]))

(***************************************************************************)
(* pandas DataFrame: the column labels (Index.values), the labels the      *)
(* Index's cached lookup engine resolves, and one value series per column  *)
(***************************************************************************)
\* 'time' in col.lower() / 'abs' in col.lower(), for the column names that
\* occur in the input files of this model
ContainsTime(name) ==
    name \in {"Time (s)", "Time_s", "TIME", "Elapsed Time", "Absolute Time"}
ContainsAbs(name) ==
    name \in {"Absorbance", "Abs_410", "ABS", "Absolute Time"}

\* pd.read_csv of a file: columns in file order, every cell numeric
ReadCsv(file) ==
    LET n == Len(file.cols)
        names == [i \in 1..n |-> file.cols[i].name]
    IN  [labels |-> names,
         engine |-> names,
         vals |-> [i \in 1..n |->
                     LET src == IF file.cols[i].role = "t" THEN file.t ELSE file.a
                     IN  [j \in 1..Len(src) |-> Int2F(src[j])]]]

\* the positions a label resolves to (Index.get_loc through the engine)
Locs(df, key) == {i \in 1..Len(df.engine) : df.engine[i] = key}

\* df[key] = series: replaces the column the label resolves to, or appends
\* a column, which builds a new Index (and engine) from the current labels
SetItem(df, key, series) ==
    IF Locs(df, key) # {} THEN
        [df EXCEPT !.vals = [i \in 1..Len(df.vals) |->
                               IF i \in Locs(df, key) THEN series ELSE df.vals[i]]]
    ELSE
        [labels |-> Append(df.labels, key),
         engine |-> Append(df.labels, key),
         vals |-> Append(df.vals, series)]

\* KineticAnalyzer._normalize_columns.  indexCached: whether the Index
\* answers lookups from the engine it built for the `in` test, so that the
\* in-place write to columns.values is not seen by later lookups
NormalizeColumns(df, indexCached) ==
    LET renamed == [i \in 1..Len(df.labels) |->
                      IF ContainsTime(df.labels[i]) THEN "Time_s"
                      ELSE IF ContainsAbs(df.labels[i]) THEN "Absorbance"
                      ELSE df.labels[i]]
        fallback == (\A i \in 1..Len(renamed) : renamed[i] # "Time_s")
                    /\ Len(renamed) >= 2
        assigned == [renamed EXCEPT ![1] = "Time_s", ![2] = "Absorbance"]
    IN  IF fallback THEN
            [df |-> [labels |-> assigned,
                     engine |-> IF indexCached THEN renamed ELSE assigned,
                     vals |-> df.vals],
             warned |-> TRUE]
        ELSE
            [df |-> [labels |-> renamed, engine |-> renamed, vals |-> df.vals],
             warned |-> FALSE]

(***************************************************************************)
(* KineticAnalyzer.calculate_rate                                          *)
(***************************************************************************)
\* the robust-fallback threshold on r_squared, 0.98
RobustThreshold == Fin(98, 100)

\* a variant of the condition with an inclusive threshold (r_squared <= 0.98),
\* which property C1 tells apart from the condition of line 79
RobustTriggerInclusive(sklearnAvailable, r_squared) ==
    sklearnAvailable /\ FLe(r_squared, RobustThreshold)

\* the condition of the robust branch
RobustTrigger(sklearnAvailable, r_squared) ==
    sklearnAvailable /\ FLt(r_squared, RobustThreshold)

\* the values of seq that are not nan, in order
RECURSIVE DropNaN(_)
DropNaN(seq) ==
    IF seq = <<>> THEN <<>>
    ELSE IF Head(seq).k = "nan" THEN DropNaN(Tail(seq))
    ELSE <<Head(seq)>> \o DropNaN(Tail(seq))

\* the mean of values none of which is nan
MeanOf(seq, kinds) ==
    IF seq = <<>> \/ {"pinf", "ninf"} \subseteq kinds THEN NaN
    ELSE IF "pinf" \in kinds THEN PInf
    ELSE IF "ninf" \in kinds THEN NInf
    ELSE FMean(seq)

\* Series.mean(): nan is skipped, inf is not
SeriesMean(seq) ==
    MeanOf(DropNaN(seq), {seq[i].k : i \in 1..Len(seq)})

\* slope * t + intercept, nan when the fit is nan
FitLine(slope, intercept, ts) ==
    [j \in 1..Len(ts) |->
        IF IsFinite(slope) /\ IsFinite(intercept) /\ IsFinite(ts[j])
        THEN FAdd(FMul(slope, ts[j]), intercept) ELSE NaN]

\* the column a label resolves to, when it resolves to exactly one
Column(df, key) == df.vals[CHOOSE i \in Locs(df, key) : TRUE]

Residuals(conc, fit) ==
    [j \in 1..Len(conc) |->
        IF IsFinite(conc[j]) /\ IsFinite(fit[j])
        THEN FSub(conc[j], fit[j]) ELSE NaN]

\* the twin axis of plot_kinetics: Axes.set_ylim raises ValueError on a nan
\* or inf limit
TwinAxisRaises(df, mc) ==
    \/ Cardinality(Locs(df, "Absorbance")) > 1
    \/ mc # Int2F(0) /\ ~IsFinite(FDiv(SeriesMean(Column(df, "Absorbance")), mc))

\* KineticVisualizer.plot_kinetics: attaches the fit and residual columns
PlotWith(df, fit) ==
    [err |-> IF TwinAxisRaises(df, SeriesMean(Column(df, "concentration")))
             THEN "ValueError" ELSE "",
     df |-> SetItem(SetItem(df, "fit_concentration", fit), "residuals",
                    Residuals(Column(df, "concentration"), fit))]

PlotKinetics(df, slope, intercept) ==
    PlotWith(df, FitLine(slope, intercept, Column(df, "Time_s")))

NoEst ==
    [fitted |-> FALSE, ols_slope |-> NaN, ols_intercept |-> NaN, ols_r2 |-> NaN,
     used_robust |-> FALSE, slope |-> NaN, intercept |-> NaN, r_squared |-> NaN,
     inlier_mask |-> <<>>, n_trials |-> 0]

RateFail(kind, df) ==
    [err |-> kind, df |-> df, est |-> NoEst, rate |-> NaN, r_squared |-> NaN]

\* lines 110-126: the visualization hook and the return
RateReturn(est, pk) ==
    IF pk.err # "" THEN
        [err |-> pk.err, df |-> pk.df, est |-> est, rate |-> NaN, r_squared |-> NaN]
    ELSE
        [err |-> "", df |-> pk.df, est |-> est,
         rate |-> FNeg(est.slope), r_squared |-> est.r_squared]

\* lines 100-108: the values kept and the is_outlier column
RateMark(df, ols, robust, rf, vizAvailable) ==
    IF rf.err # "" THEN
        [err |-> rf.err, df |-> df,
         est |-> [NoEst EXCEPT !.fitted = TRUE, !.ols_slope = ols.slope,
                               !.ols_intercept = ols.intercept,
                               !.ols_r2 = ols.r2, !.used_robust = robust,
                               !.n_trials = rf.n_trials],
         rate |-> NaN, r_squared |-> NaN]
    ELSE RateReturn([fitted |-> TRUE, ols_slope |-> ols.slope,
                     ols_intercept |-> ols.intercept, ols_r2 |-> ols.r2,
                     used_robust |-> robust,
                     slope |-> rf.slope, intercept |-> rf.intercept,
                     r_squared |-> rf.score,
                     inlier_mask |-> rf.inlier_mask, n_trials |-> rf.n_trials],
                    IF vizAvailable
                    THEN PlotKinetics(SetItem(df, "is_outlier",
                                              [j \in 1..Len(rf.inlier_mask) |->
                                                  ~rf.inlier_mask[j]]),
                                      rf.slope, rf.intercept)
                    ELSE [err |-> "",
                          df |-> SetItem(df, "is_outlier",
                                         [j \in 1..Len(rf.inlier_mask) |->
                                             ~rf.inlier_mask[j]])])

\* lines 77-103: the robust branch, or the ordinary fit kept as it is
RateRobust(df, ts, conc, ols, robust, vizAvailable, stream) ==
    RateMark(df, ols, robust,
             IF robust THEN RansacFit(ts, conc, stream)
             ELSE [err |-> "", slope |-> ols.slope, intercept |-> ols.intercept,
                   score |-> ols.r2, inlier_mask |-> [j \in 1..Len(ts) |-> TRUE],
                   n_trials |-> 0],
             vizAvailable)

\* lines 71-79: the ordinary fit and the decision
RateOls(df, ts, conc, ols, sklearnAvailable, vizAvailable, stream) ==
    IF ols.err # "" THEN RateFail(ols.err, df)
    ELSE RateRobust(df, ts, conc, ols, RobustTrigger(sklearnAvailable, ols.r2),
                    vizAvailable, stream)

\* lines 72-74: the lookups of Time_s and concentration
RateFit(df, conc, sklearnAvailable, vizAvailable, stream) ==
    IF Locs(df, "Time_s") = {} THEN RateFail("KeyError", df)
    ELSE IF Cardinality(Locs(df, "Time_s")) > 1 THEN RateFail("ValueError", df)
    ELSE RateOls(df, Column(df, "Time_s"), conc,
                 LinRegress(Column(df, "Time_s"), conc),
                 sklearnAvailable, vizAvailable, stream)

\* line 69: Beer's law, concentration = Absorbance / (epsilon * path_length)
Concentration(ab, epsilon, path_length) ==
    [j \in 1..Len(ab) |-> FDiv(ab[j], Int2F(epsilon * path_length))] \o <<>>

RateConc(df, conc, sklearnAvailable, vizAvailable, stream) ==
    RateFit(SetItem(df, "concentration", conc), conc,
            sklearnAvailable, vizAvailable, stream)

\* calculate_rate on the analyzer's table: the exception it raises (err) or
\* the returned rate and r_squared, with the table as it leaves it and the
\* values of its locals (est)
CalculateRate(df, epsilon, path_length, sklearnAvailable, vizAvailable, stream) ==
    IF Locs(df, "Absorbance") = {} THEN RateFail("KeyError", df)
    ELSE IF Cardinality(Locs(df, "Absorbance")) > 1 THEN RateFail("ValueError", df)
    ELSE RateConc(df, Concentration(Column(df, "Absorbance"), epsilon, path_length),
                  sklearnAvailable, vizAvailable, stream)

(***************************************************************************)
(* KineticAnalyzer.calculate_intrinsic_rate                                *)
(***************************************************************************)
\* salt_factors.get(anion, 1.0)
SaltFactor(anion, salt_factors) ==
    IF anion \in DOMAIN salt_factors THEN salt_factors[anion] ELSE Int2F(1)

\* a variant that applies the factor instead of removing it (k_obs * factor),
\* which property C7 tells apart from the division of line 130
IntrinsicRateMultiplied(k_obs, anion, salt_factors) ==
    [k_intrinsic |-> IF IsFinite(k_obs) /\ IsFinite(SaltFactor(anion, salt_factors))
                     THEN FMul(k_obs, SaltFactor(anion, salt_factors)) ELSE NaN,
     factor |-> SaltFactor(anion, salt_factors)]

\* k_obs is the numpy float64 calculate_rate returned, so the division by a
\* zero factor yields inf or nan instead of raising ZeroDivisionError
CalculateIntrinsicRate(k_obs, anion, salt_factors) ==
    LET factor == SaltFactor(anion, salt_factors)
    IN  [k_intrinsic |-> FDiv(k_obs, factor), factor |-> factor]

(***************************************************************************)
(* arrhenius_plotter.plot_arrhenius                                        *)
(***************************************************************************)
\* floor(log2(a)) for a finite a > 0
RECURSIVE FloorLog2(_)
FloorLog2(a) ==
    IF a.n < a.d THEN FloorLog2(Fin(2 * a.n, a.d)) - 1
    ELSE IF a.n >= 2 * a.d THEN FloorLog2(Fin(a.n, 2 * a.d)) + 1
    ELSE 0

\* the mantissa a / 2^e, in [1, 2)
Mantissa(a, e) ==
    IF e >= 0 THEN Fin(a.n, a.d * (2 ^ e)) ELSE Fin(a.n * (2 ^ (-e)), a.d)

\* one more bit of the logarithm of m in [1, 2): square, and halve if >= 2
SquareBit(m) == IF m.n * m.n >= 2 * m.d * m.d THEN 1 ELSE 0
SquareRest(m) ==
    IF SquareBit(m) = 1 THEN Fin(m.n * m.n, 2 * m.d * m.d) ELSE Fin(m.n * m.n, m.d * m.d)

\* floor(4 * log2(a)) for a finite a > 0: two fractional bits by squaring
Log2From(e, m) == 4 * e + 2 * SquareBit(m) + SquareBit(SquareRest(m))
Log2Quarters(a) == Log2From(FloorLog2(a), Mantissa(a, FloorLog2(a)))

\* floor(q / 1000) for any integer q
FloorThousandth(q) == IF q >= 0 THEN q \div 1000 ELSE -((-q + 999) \div 1000)

\* np.log on float64, to a resolution of 1/4: ln(a) = log2(a) * 0.693...;
\* log(0) = -inf, log of a negative value or nan = nan, log(inf) = inf
NpLog(a) ==
    CASE a.k = "nan" -> NaN
      [] a.k = "pinf" -> PInf
      [] a.k = "ninf" -> NaN
      [] a.n = 0 -> NInf
      [] a.n < 0 -> NaN
      [] OTHER -> Fin(FloorThousandth(Log2Quarters(a) * 693), 4)

\* np.exp, kept as the exponent it was taken of (exp is one-to-one)
NpExp(a) == IF a.k = "nan" THEN NaN ELSE [k |-> "exp", n |-> a.n, d |-> a.d]

\* the gas constant R = 8.314 J/(mol K), as 4157/500
GasConstant == Fin(8314, 1000)

\* lines 21-24 and 39: the dictionary built from the fit
ArrheniusStats(lr) ==
    IF lr.err # "" THEN
        [err |-> lr.err, E_a_kJ_mol |-> NaN, A |-> NaN, R_squared |-> NaN]
    ELSE
        [err |-> "",
         E_a_kJ_mol |-> IF IsFinite(lr.slope)
                        THEN FDiv(FMul(FNeg(lr.slope), GasConstant), Int2F(1000))
                        ELSE NaN,
         A |-> NpExp(lr.intercept),
         R_squared |-> lr.r2]

\* a variant that sorts the temperatures on their own, leaving the rates in
\* arrival order; property C13 tells it apart from the fit of lines 16-19
RECURSIVE InsertInt(_, _)
InsertInt(v, sorted) ==
    IF sorted = <<>> THEN <<v>>
    ELSE IF v < Head(sorted) THEN <<v>> \o sorted
    ELSE <<Head(sorted)>> \o InsertInt(v, Tail(sorted))

RECURSIVE SortInts(_)
SortInts(vs) ==
    IF vs = <<>> THEN <<>> ELSE InsertInt(Head(vs), SortInts(Tail(vs)))

PlotArrheniusSortedTemps(temps, ks) ==
    ArrheniusStats(LinRegress(
        [j \in 1..Len(temps) |-> FDiv(Int2F(1), Int2F(SortInts(temps)[j]))] \o <<>>,
        [j \in 1..Len(ks) |-> NpLog(ks[j])] \o <<>>))

\* plot_arrhenius(temperature_k, k_obs): the ValueError of linregress, or
\* the dictionary it returns
PlotArrhenius(temps, ks) ==
    ArrheniusStats(LinRegress(
        [j \in 1..Len(temps) |-> FDiv(Int2F(1), Int2F(temps[j]))] \o <<>>,
        [j \in 1..Len(ks) |-> NpLog(ks[j])] \o <<>>))

(***************************************************************************)
(* The per-run pipeline of the batch loops:                                *)
(*   analyzer = KineticAnalyzer(filepath, path_length, epsilon)            *)
(*   k_obs, r_squared = analyzer.calculate_rate()                          *)
(*   k_intrinsic, factor = analyzer.calculate_intrinsic_rate(...)          *)
(***************************************************************************)
\* extract_temperature returns None when the file name holds no "<digits>K"
NoTemp == -1

\* the decimal digits of a file name, a name being the sequence of its
\* characters
IsDigit(c) == c \in {"0", "1", "2", "3", "4", "5", "6", "7", "8", "9"}

DigitValue(c) ==
    CASE c = "0" -> 0 [] c = "1" -> 1 [] c = "2" -> 2 [] c = "3" -> 3
      [] c = "4" -> 4 [] c = "5" -> 5 [] c = "6" -> 6 [] c = "7" -> 7
      [] c = "8" -> 8 [] OTHER -> 9

\* int() of a non-empty run of digits
RECURSIVE IntOf(_)
IntOf(ds) ==
    IF Len(ds) = 1 THEN DigitValue(ds[1])
    ELSE 10 * IntOf(SubSeq(ds, 1, Len(ds) - 1)) + DigitValue(ds[Len(ds)])

\* name[s..e] is a match of (\d+)K's group: digits, followed by "K"
GroupAt(name, s, e) ==
    /\ \A k \in s..e : IsDigit(name[k])
    /\ e + 1 <= Len(name) /\ name[e + 1] = "K"

\* the positions where re.search(r"(\d+)K", name) can start a match
MatchStarts(name) ==
    {s \in 1..Len(name) : \E e \in s..Len(name) : GroupAt(name, s, e)}

\* the group of the match that starts at s
GroupFrom(name, s) ==
    SubSeq(name, s, CHOOSE e \in s..Len(name) : GroupAt(name, s, e))

\* extract_temperature(filename): int of the group of the leftmost match,
\* None (NoTemp) without a match
ExtractTemperature(name) ==
    IF MatchStarts(name) = {} THEN NoTemp
    ELSE IntOf(GroupFrom(name, CHOOSE s \in MatchStarts(name) :
                                   \A u \in MatchStarts(name) : s <= u))

NoDf == [labels |-> <<>>, engine |-> <<>>, vals |-> <<>>]

\* the locals of one loop iteration; stage is where an exception was raised
NoRun ==
    [file |-> 0, err |-> "", stage |-> "none", df |-> NoDf, warned |-> FALSE,
     est |-> NoEst, k_obs |-> NaN, r_squared |-> NaN, k_intrinsic |-> NaN,
     factor |-> NaN]

PipelineSalt(idx, nz, cr, si) ==
    [file |-> idx, err |-> "", stage |-> "done", df |-> cr.df,
     warned |-> nz.warned, est |-> cr.est, k_obs |-> cr.rate,
     r_squared |-> cr.r_squared, k_intrinsic |-> si.k_intrinsic,
     factor |-> si.factor]

PipelineRate(idx, nz, cr, e) ==
    IF cr.err # "" THEN
        [NoRun EXCEPT !.file = idx, !.err = cr.err, !.stage = "rate",
                      !.df = cr.df, !.warned = nz.warned, !.est = cr.est]
    ELSE PipelineSalt(idx, nz, cr,
                      CalculateIntrinsicRate(cr.rate, e.acid_anion, e.salt_factors))

PipelineInit(idx, nz, e) ==
    PipelineRate(idx, nz,
                 CalculateRate(nz.df, e.epsilon, e.path_length,
                               e.sklearnAvailable, e.vizAvailable, e.stream),
                 e)

RunPipeline(idx, file, e) ==
    IF Len(file.cols) = 0 THEN
        \* pd.read_csv raises EmptyDataError on a file without columns
        [NoRun EXCEPT !.file = idx, !.err = "EmptyDataError", !.stage = "init"]
    ELSE PipelineInit(idx, NormalizeColumns(ReadCsv(file), e.indexCached), e)

\* DataFrame.sort_values on the temperature column (insertion sort)
RECURSIVE InsertByTemp(_, _)
InsertByTemp(row, sorted) ==
    IF sorted = <<>> THEN <<row>>
    ELSE IF row.temperature_k < Head(sorted).temperature_k THEN <<row>> \o sorted
    ELSE <<Head(sorted)>> \o InsertByTemp(row, Tail(sorted))

RECURSIVE SortByTemp(_)
SortByTemp(rows) ==
    IF rows = <<>> THEN <<>>
    ELSE InsertByTemp(rows[Len(rows)], SortByTemp(SubSeq(rows, 1, Len(rows) - 1)))

\* a variant that keeps the rows without a temperature; property C17 tells
\* it apart from the dropna of line 172
DropNoTempKeepAll(rows) == rows

\* DataFrame.dropna(subset=[temperature])
RECURSIVE DropNoTemp(_)
DropNoTemp(rows) ==
    IF rows = <<>> THEN <<>>
    ELSE IF Head(rows).temperature_k = NoTemp THEN DropNoTemp(Tail(rows))
    ELSE <<Head(rows)>> \o DropNoTemp(Tail(rows))

Temps(rows) == [j \in 1..Len(rows) |-> rows[j].temperature_k]
KInts(rows) == [j \in 1..Len(rows) |-> rows[j].k_intrinsic]

NoStats == [err |-> "none", E_a_kJ_mol |-> NaN, A |-> NaN, R_squared |-> NaN]

(***************************************************************************)
(* Inputs: the build, the configuration and the batch of CSV files         *)
(***************************************************************************)
\* the most files a batch of the model holds
MaxRuns == 3

Col(name, role) == [name |-> name, role |-> role]

StdCols == <<Col("Time (s)", "t"), Col("Absorbance", "a")>>

\* (time, absorbance) series
Clean == [t |-> <<0, 1, 2, 3>>, a |-> <<8, 6, 4, 2>>]
Steep == [t |-> <<0, 1, 2>>, a |-> <<9, 5, 1>>]
Spike == [t |-> <<0, 1, 2, 3, 4>>, a |-> <<8, 6, 20, 2, 0>>]
Noisy == [t |-> <<0, 1, 2, 3>>, a |-> <<9, 6, 4, 1>>]
Edge98 == [t |-> <<0, 1, 2, 3>>, a |-> <<9, 7, 3, 1>>]
Rising == [t |-> <<0, 1, 2>>, a |-> <<2, 4, 6>>]
Flat == [t |-> <<0, 1, 2>>, a |-> <<5, 5, 5>>]
TwoRows == [t |-> <<0, 2>>, a |-> <<8, 4>>]
OneRow == [t |-> <<0>>, a |-> <<8>>]
NoRows == [t |-> <<>>, a |-> <<>>]
SameTime == [t |-> <<1, 1>>, a |-> <<8, 6>>]
Zigzag == [t |-> <<0, 1, 2, 3>>, a |-> <<8, 6, 8, 6>>]

SeriesSet ==
    {Clean, Steep, Spike, Noisy, Edge98, Rising, Flat, TwoRows, OneRow, NoRows,
     SameTime, Zigzag}

\* column layouts of an input file
Layouts ==
    { StdCols,
      <<Col("ABS", "a"), Col("TIME", "t")>>,
      <<Col("t", "t"), Col("A", "a")>>,
      <<Col("Elapsed Time", "t"), Col("Time (s)", "t"), Col("Absorbance", "a")>>,
      <<Col("Time (s)", "t"), Col("Absolute Time", "a")>>,
      <<Col("Absolute Time", "t"), Col("Absorbance", "a")>>,
      <<Col("x", "t"), Col("y", "a"), Col("Abs_410", "a")>>,
      <<Col("Absorbance", "a"), Col("x", "t")>>,
      <<Col("ABS", "a"), Col("Abs_410", "a"), Col("TIME", "t")>>,
      <<Col("Time (s)", "t"), Col("Signal", "a")>>,
      <<Col("Time (s)", "t")>>,
      <<Col("y", "a")>>,
      <<>> }

\* a file: its name, its header and its rows
NamedFile(cols, series, name) ==
    [cols |-> cols, t |-> series.t, a |-> series.a, name |-> name]

DigitChar(d) == <<"0", "1", "2", "3", "4", "5", "6", "7", "8", "9">>[d + 1]

\* "run_<temp>K.csv", or "run.csv" for a file without a temperature
RunName(temp) ==
    IF temp = NoTemp THEN <<"r", "u", "n", ".", "c", "s", "v">>
    ELSE <<"r", "u", "n", "_">>
         \o (IF temp < 10 THEN <<DigitChar(temp)>>
             ELSE <<DigitChar(temp \div 10), DigitChar(temp % 10)>>)
         \o <<"K", ".", "c", "s", "v">>

File(cols, series, temp) == NamedFile(cols, series, RunName(temp))

\* file names the pattern has to decide: "run_2k", "12K", "2C_4K", "K2",
\* "2_K" and "25K3K"
OddNames ==
    { <<"r", "u", "n", "_", "2", "k">>, <<"1", "2", "K">>,
      <<"2", "C", "_", "4", "K">>, <<"K", "2">>, <<"2", "_", "K">>,
      <<"2", "5", "K", "3", "K">> }

\* the files a one-file batch is drawn from
SingleFiles ==
    {File(StdCols, s, tk) : s \in SeriesSet, tk \in {NoTemp, 2}}
    \cup {File(l, s, 2) : l \in Layouts, s \in {Clean, Spike}}
    \cup {NamedFile(StdCols, Clean, nm) : nm \in OddNames}

\* the files a longer batch is drawn from
BatchFiles ==
    { File(StdCols, Clean, 2), File(StdCols, Steep, 4), File(StdCols, Noisy, 5),
      File(StdCols, Clean, 4), File(StdCols, Rising, 4), File(StdCols, Clean, 0),
      File(StdCols, Clean, NoTemp), File(<<Col("Time (s)", "t")>>, Clean, 5) }

RECURSIVE SeqsOf(_, _)
SeqsOf(S, n) ==
    IF n = 0 THEN {<<>>}
    ELSE {Append(q, f) : q \in SeqsOf(S, n - 1), f \in S}

\* batches that hold the same file twice
Repeats ==
    {<<File(StdCols, s, 2), File(StdCols, s, 2)>> :
        s \in {Clean, Spike, Zigzag, OneRow}}

\* longer batches with a file that has no temperature among files that have
LongBatches ==
    { <<File(StdCols, Clean, 2), File(StdCols, Clean, NoTemp),
        File(StdCols, Steep, 4), File(StdCols, Noisy, 5)>>,
      <<File(StdCols, Steep, 5), File(StdCols, Clean, 2),
        File(StdCols, Clean, NoTemp), File(StdCols, Clean, 4)>> }

Batches ==
    {<<>>} \cup {<<f>> : f \in SingleFiles}
    \cup UNION {SeqsOf(BatchFiles, n) : n \in 2..MaxRuns}
    \cup Repeats \cup LongBatches

\* the build (optional imports, pandas' index cache, the generator's stream
\* for random_state=42) and src/config.yaml
BaseEnv ==
    [mode |-> "orchestrator",
     sklearnAvailable |-> TRUE, vizAvailable |-> TRUE, indexCached |-> FALSE,
     stream |-> <<0, 1, 2, 3, 4, 5, 6, 7, 8, 9>>,
     epsilon |-> 1, path_length |-> 1,
     acid_anion |-> "Cl-",
     salt_factors |-> [an \in {"Cl-"} |-> Int2F(1)]]

EnvVariants ==
    { BaseEnv,
      [BaseEnv EXCEPT !.sklearnAvailable = FALSE],
      [BaseEnv EXCEPT !.vizAvailable = FALSE],
      [BaseEnv EXCEPT !.sklearnAvailable = FALSE, !.vizAvailable = FALSE],
      [BaseEnv EXCEPT !.indexCached = TRUE],
      [BaseEnv EXCEPT !.stream = <<7, 3, 9, 1, 4>>],
      [BaseEnv EXCEPT !.epsilon = 2],
      [BaseEnv EXCEPT !.epsilon = -1],
      [BaseEnv EXCEPT !.epsilon = 0],
      [BaseEnv EXCEPT !.path_length = 0, !.sklearnAvailable = FALSE],
      [BaseEnv EXCEPT !.salt_factors = [an \in {"Cl-", "SO4--"} |->
                                          IF an = "Cl-" THEN Fin(1, 2) ELSE Fin(7, 5)]],
      [BaseEnv EXCEPT !.salt_factors = [an \in {"SO4--"} |-> Fin(7, 5)]],
      [BaseEnv EXCEPT !.acid_anion = "SO4--",
                      !.salt_factors = [an \in {"Cl-", "SO4--"} |->
                                          IF an = "Cl-" THEN Int2F(1) ELSE Fin(7, 5)]],
      [BaseEnv EXCEPT !.salt_factors = [an \in {"Cl-"} |-> Int2F(0)]],
      [BaseEnv EXCEPT !.salt_factors = [an \in {"Cl-"} |-> Int2F(0)],
                      !.sklearnAvailable = FALSE] }

Envs == EnvVariants \cup {[e EXCEPT !.mode = "dashboard"] : e \in EnvVariants}

\* the environments the longer batches are run in
BatchEnvs == {BaseEnv, [BaseEnv EXCEPT !.mode = "dashboard"]}

(***************************************************************************)
(* State of orchestrator.main / the dashboard script                       *)
(***************************************************************************)
VARIABLES
    env,       \* build and configuration, fixed for the execution
    files,     \* csv_files / uploaded_files, in processing order
    i,         \* position of the batch loop: the next file
    results,   \* the list `results`
    run,       \* the locals of the latest loop iteration (analyzer, k_obs, ...)
    log,       \* what was printed / shown, in order
    stats,     \* arrhenius_stats (E_a, A, r_val in the dashboard)
    report,    \* the rows of final_report.md once it is written
    pc,        \* "scan", "loop", "done" or "crashed" (uncaught exception)
    drawn      \* how many subsets the robust fits of this process have drawn

vars == <<env, files, i, results, run, log, stats, report, pc, drawn>>

Init ==
    /\ env \in Envs
    /\ files \in Batches
    /\ (Len(files) > 1 /\ files \notin Repeats) => env \in BatchEnvs
    /\ i = 1
    /\ results = <<>>
    /\ run = NoRun
    /\ log = <<>>
    /\ stats = NoStats
    /\ report = <<>>
    /\ pc = "scan"
    /\ drawn = 0

Msg(kind, idx) == [kind |-> kind, file |-> idx]

Row(idx, temp, r) ==
    [filename |-> idx, temperature_k |-> temp, k_observed |-> r.k_obs,
     k_intrinsic |-> r.k_intrinsic, r_squared |-> r.r_squared]

\* orchestrator.main lines 44-65 / dashboard `if uploaded_files:`
ScanFiles ==
    /\ pc = "scan"
    /\ pc' = IF files = <<>> THEN "done" ELSE "loop"
    /\ log' = IF files = <<>> THEN Append(log, Msg("NoFiles", 0)) ELSE log
    /\ UNCHANGED <<drawn, env, files, i, results, run, stats, report>>

\* orchestrator.main lines 71-74: a file without a temperature is skipped
OrchSkip ==
    /\ pc = "loop" /\ env.mode = "orchestrator"
    /\ i <= Len(files)
    /\ ExtractTemperature(files[i].name) = NoTemp
    /\ log' = Append(log, Msg("Skipping", i))
    /\ i' = i + 1
    /\ UNCHANGED <<drawn, env, files, results, run, stats, report, pc>>

\* a variant of the iteration without the except clause: the exception of a
\* run ends the loop; property C2 tells it apart from the handler of lines 93-95
IterateUncaught(r) ==
    /\ run' = r
    /\ IF r.err = "" THEN
            /\ results' = Append(results, Row(i, ExtractTemperature(files[i].name), r))
            /\ log' = IF env.mode = "orchestrator"
                      THEN Append(log, Msg("Processed", i)) ELSE log
            /\ i' = i + 1
            /\ pc' = pc
       ELSE
            /\ pc' = "crashed"
            /\ UNCHANGED <<results, log, i>>
    /\ drawn' = drawn + r.est.n_trials
    /\ UNCHANGED <<env, files, stats, report>>

\* the try / except Exception of one iteration, shared by both loops
Iterate(r) ==
    /\ run' = r
    /\ IF r.err = "" THEN
            /\ results' = Append(results, Row(i, ExtractTemperature(files[i].name), r))
            /\ log' = IF env.mode = "orchestrator"
                      THEN Append(log, Msg("Processed", i)) ELSE log
       ELSE
            /\ results' = results
            /\ log' = Append(log, Msg("Error", i))
    /\ i' = i + 1
    /\ drawn' = drawn + r.est.n_trials
    /\ UNCHANGED <<env, files, stats, report, pc>>

\* orchestrator.main lines 76-95
OrchProcess ==
    /\ pc = "loop" /\ env.mode = "orchestrator"
    /\ i <= Len(files)
    /\ ExtractTemperature(files[i].name) # NoTemp
    /\ Iterate(RunPipeline(i, files[i],
                            [env EXCEPT !.stream = CheckRandomState(env.stream, drawn)]))

\* dashboard.py lines 82-115
DashProcess ==
    /\ pc = "loop" /\ env.mode = "dashboard"
    /\ i <= Len(files)
    /\ Iterate(RunPipeline(i, files[i],
                            [env EXCEPT !.stream = CheckRandomState(env.stream, drawn)]))

\* orchestrator.main lines 97-99
OrchNoResults ==
    /\ pc = "loop" /\ env.mode = "orchestrator"
    /\ i > Len(files)
    /\ results = <<>>
    /\ log' = Append(log, Msg("NoResults", 0))
    /\ pc' = "done"
    /\ UNCHANGED <<drawn, env, files, i, results, run, stats, report>>

\* a variant with the Arrhenius block inside the loop body: it runs as soon
\* as a result exists, before the remaining files; property C16 tells it
\* apart from the block of lines 97-136
OrchArrheniusInLoop ==
    /\ pc = "loop" /\ env.mode = "orchestrator"
    /\ results # <<>>
    /\ stats = NoStats
    /\ stats' = PlotArrhenius(Temps(SortByTemp(results)), KInts(SortByTemp(results)))
    /\ log' = Append(log, Msg("Arrhenius", 0))
    /\ report' = SortByTemp(results)
    /\ pc' = IF i > Len(files) THEN "done" ELSE "loop"
    /\ UNCHANGED <<drawn, env, files, i, results, run>>

\* orchestrator.main lines 101-136: the Arrhenius fit and the report; an
\* exception of plot_arrhenius is not caught
OrchArrhenius ==
    /\ pc = "loop" /\ env.mode = "orchestrator"
    /\ i > Len(files)
    /\ results # <<>>
    /\ LET df_results == SortByTemp(results)
           st == PlotArrhenius(Temps(df_results), KInts(df_results))
       IN  IF st.err # "" THEN
                /\ pc' = "crashed"
                /\ UNCHANGED <<stats, report, log>>
           ELSE
                /\ stats' = st
                /\ log' = Append(log, Msg("Arrhenius", 0))
                /\ report' = df_results
                /\ pc' = "done"
    /\ UNCHANGED <<drawn, env, files, i, results, run>>

\* dashboard.py lines 117-195: the tabs; the fit needs more than 2 rows
\* with a temperature
DashTabs ==
    /\ pc = "loop" /\ env.mode = "dashboard"
    /\ i > Len(files)
    /\ IF results = <<>> THEN
            /\ pc' = "done"
            /\ UNCHANGED <<stats, log>>
       ELSE
            LET df_arrhenius == DropNoTemp(results)
                sorted == SortByTemp(df_arrhenius)
                st == PlotArrhenius(Temps(sorted), KInts(sorted))
            IN  IF Len(df_arrhenius) > 2 THEN
                    IF st.err # "" THEN
                        /\ pc' = "crashed"
                        /\ UNCHANGED <<stats, log>>
                    ELSE
                        /\ stats' = st
                        /\ log' = Append(log, Msg("Arrhenius", 0))
                        /\ pc' = "done"
                ELSE
                    /\ log' = Append(log, Msg("NeedThreeRuns", 0))
                    /\ pc' = "done"
                    /\ UNCHANGED stats
    /\ UNCHANGED <<drawn, env, files, i, results, run, report>>

Next ==
    \/ ScanFiles
    \/ OrchSkip
    \/ OrchProcess
    \/ DashProcess
    \/ OrchNoResults
    \/ OrchArrhenius
    \/ DashTabs

Spec == Init /\ [][Next]_vars

(***************************************************************************)
(* Properties                                                              *)
(***************************************************************************)
\* the run of the latest iteration got as far as calculate_rate
Estimated == run.stage \in {"rate", "done"}

\* the column names of the file of the latest iteration, and the labels its
\* table carries for them after _normalize_columns
InputNames == [k \in 1..Len(files[run.file].cols) |-> files[run.file].cols[k].name]
NormalizedLabels == SubSeq(run.df.labels, 1, Len(files[run.file].cols))

CountOf(labels, key) == Cardinality({k \in 1..Len(labels) : labels[k] = key})

\* the rows of `results` that belong to file j
RowCount(j) == Cardinality({k \in 1..Len(results) : results[k].filename = j})

\* the loop runs the pipeline on file j (the orchestrator skips a file whose
\* name carries no temperature)
Eligible(j) ==
    env.mode = "dashboard" \/ ExtractTemperature(files[j].name) # NoTemp

\* C1: calculate_rate selects the robust re-fit if and only if the ordinary
\* r_squared is strictly below 0.98 and sklearn is available; otherwise the
\* ordinary slope, intercept and r_squared are the ones kept and returned,
\* and every sample's is_outlier flag is false.
C1_RobustTriggerRule ==
    run.est.fitted =>
        /\ run.est.used_robust <=>
              (env.sklearnAvailable /\ FLt(run.est.ols_r2, Fin(98, 100)))
        /\ ~run.est.used_robust =>
              /\ run.est.slope = run.est.ols_slope
              /\ run.est.intercept = run.est.ols_intercept
              /\ run.est.r_squared = run.est.ols_r2
              /\ Locs(run.df, "is_outlier") # {}
              /\ \A j \in 1..Len(Column(run.df, "is_outlier")) :
                    ~Column(run.df, "is_outlier")[j]
              /\ run.err = "" =>
                    /\ run.k_obs = FNeg(run.est.ols_slope)
                    /\ run.r_squared = run.est.ols_r2

\* a run whose ordinary fit was below the threshold and was replaced by a
\* robust fit with another slope and flagged outliers
C1_Witness ==
    /\ run.err = "" /\ run.est.used_robust
    /\ FLt(run.est.ols_r2, Fin(98, 100))
    /\ run.est.slope # run.est.ols_slope
    /\ \E j \in 1..Len(Column(run.df, "is_outlier")) : Column(run.df, "is_outlier")[j]

\* C2: a run that raises does not end the batch: every file before the loop
\* position has exactly one row in results if its pipeline succeeded and
\* none if it raised (a raised error is reported), no later file has a row,
\* and the program ends only after the loop has passed the last file.
C2_FailureDoesNotAbortBatch ==
    /\ \A j \in 1..Len(files) :
          IF j < i /\ Eligible(j) THEN
              IF RunPipeline(j, files[j], env).err = ""
              THEN RowCount(j) = 1
              ELSE /\ RowCount(j) = 0
                   /\ \E m \in 1..Len(log) : log[m] = Msg("Error", j)
          ELSE RowCount(j) = 0
    /\ pc \in {"done", "crashed"} => i = Len(files) + 1

\* a finished batch in which a run raised and a later run still got its row
C2_Witness ==
    /\ pc = "done"
    /\ \E m \in 1..Len(log), k \in 1..Len(results) :
          log[m].kind = "Error" /\ results[k].filename > log[m].file

\* the temperatures of the rows the Arrhenius fit reads
FitTemperatures == {results[k].temperature_k : k \in 1..Len(results)} \ {NoTemp}

\* C3: a batch whose results are valid points (k_intrinsic > 0, temperature
\* > 0) at fewer than two distinct temperatures gets no Arrhenius values:
\* neither statistics nor a report are produced.
C3_NoFitBelowTwoTemperatures ==
    (/\ pc \in {"done", "crashed"}
     /\ results # <<>>
     /\ \A k \in 1..Len(results) :
           results[k].temperature_k > 0 /\ FLt(Int2F(0), results[k].k_intrinsic)
     /\ Cardinality(FitTemperatures) < 2)
        => stats.err = "none" /\ report = <<>>

\* C4: Arrhenius statistics over two or more temperatures are produced only
\* from pairs with k_intrinsic > 0 and temperature_k > 0.
C4_ArrheniusDomainGuard ==
    (stats.err = "" /\ Cardinality(FitTemperatures) >= 2) =>
        \A k \in 1..Len(results) :
            results[k].temperature_k # NoTemp =>
                /\ results[k].temperature_k > 0
                /\ FLt(Int2F(0), results[k].k_intrinsic)

\* C5: with extinction coefficient x path length zero or negative, rate
\* estimation on a run of two or more samples fails and returns no rate.
C5_NonPositiveParameterFails ==
    (/\ Estimated
     /\ Len(files[run.file].t) >= 2
     /\ env.epsilon * env.path_length <= 0)
        => run.err # ""

\* C6: rate estimation on a run with fewer than two samples fails and
\* returns no rate.
C6_TooFewSamplesFails ==
    (Estimated /\ Len(files[run.file].t) < 2) => run.err # ""

\* C7: calculate_intrinsic_rate returns the factor it used, which is the
\* table's entry for the anion, or 1 when the anion is absent (and then
\* k_intrinsic = k_observed); for k_observed > 0 and factor > 0 the result is
\* k_observed / factor, that is k_intrinsic * factor = k_observed.
C7_SaltCorrectionIdentity ==
    run.stage = "done" =>
        /\ env.acid_anion \in DOMAIN env.salt_factors =>
              run.factor = env.salt_factors[env.acid_anion]
        /\ env.acid_anion \notin DOMAIN env.salt_factors =>
              run.factor = Int2F(1) /\ run.k_intrinsic = run.k_obs
        /\ (FLt(Int2F(0), run.k_obs) /\ FLt(Int2F(0), run.factor)) =>
              /\ IsFinite(run.k_intrinsic)
              /\ FMul(run.k_intrinsic, run.factor) = run.k_obs

\* a corrected run with a positive rate and a table factor other than 1
C7_Witness ==
    /\ run.stage = "done"
    /\ FLt(Int2F(0), run.k_obs)
    /\ env.acid_anion \in DOMAIN env.salt_factors
    /\ run.factor = Fin(1, 2)
    /\ run.k_intrinsic # run.k_obs

\* C8: with an explicit factor of exactly zero for the requested anion the
\* correction of a positive rate fails instead of returning a value.
C8_ZeroFactorRaises ==
    ~(/\ run.stage = "done"
      /\ FLt(Int2F(0), run.k_obs)
      /\ env.acid_anion \in DOMAIN env.salt_factors
      /\ env.salt_factors[env.acid_anion] = Int2F(0))

\* C9: a table with a column whose name contains "time" and a column whose
\* name contains "abs" is normalized to exactly one Time_s and exactly one
\* Absorbance column.
C9_CanonicalPairByName ==
    (/\ Estimated
     /\ \E k \in 1..Len(InputNames) : ContainsTime(InputNames[k])
     /\ \E k \in 1..Len(InputNames) : ContainsAbs(InputNames[k]))
        => /\ CountOf(NormalizedLabels, "Time_s") = 1
           /\ CountOf(NormalizedLabels, "Absorbance") = 1

\* C10: the positional fallback fires exactly when no column matched "time"
\* and the table has at least two columns; after it the first column is
\* Time_s, the second is Absorbance, and no other column is Absorbance.
C10_PositionalFallback ==
    Estimated =>
        /\ run.warned <=>
              (/\ Len(InputNames) >= 2
               /\ \A k \in 1..Len(InputNames) : ~ContainsTime(InputNames[k]))
        /\ run.warned =>
              /\ NormalizedLabels[1] = "Time_s"
              /\ NormalizedLabels[2] = "Absorbance"
              /\ CountOf(NormalizedLabels, "Absorbance") = 1

\* C11: a table for which _normalize_columns completes carries both
\* canonical columns: at least one Time_s and at least one Absorbance label
\* (a table of fewer than two columns, or without a column for one of them,
\* is rejected instead).
C11_NormalizedTableHasBothColumns ==
    Estimated =>
        /\ Len(InputNames) >= 2
        /\ CountOf(NormalizedLabels, "Time_s") >= 1
        /\ CountOf(NormalizedLabels, "Absorbance") >= 1

\* C12: when a batch holds the same file twice, the second estimation
\* leaves exactly what the first left: the same outcome, the same ordinary
\* and robust slope, intercept and r_squared, the same inlier mask and the
\* same table (is_outlier column included), whatever the first fit drew.
C12_RepeatedEstimateIdentical ==
    [][(i = 2 /\ i' = 3 /\ files[1] = files[2] /\ run.file = 1) =>
          /\ run'.err = run.err
          /\ run'.est = run.est
          /\ run'.df = run.df
          /\ run'.k_obs = run.k_obs
          /\ run'.r_squared = run.r_squared]_vars

\* the second of two estimations of one file, both with the robust fit
\* triggered, after the first fit has drawn its subsets
C12_Witness ==
    /\ i = 3 /\ files[1] = files[2]
    /\ run.file = 2 /\ run.err = "" /\ run.est.used_robust
    /\ run.est.n_trials > 1
    /\ drawn = 2 * run.est.n_trials
    /\ Len(results) = 2
    /\ results[1].k_observed = results[2].k_observed
    /\ results[1].r_squared = results[2].r_squared

\* the rows the Arrhenius fit of the batch reads, in arrival order
FitRows == IF env.mode = "dashboard" THEN DropNoTemp(results) ELSE results

Reordered(rows, p) == [k \in 1..Len(rows) |-> rows[p[k]]]

\* C13: once the batch has been aggregated, plot_arrhenius gives the same
\* outcome (E_a, A, R_squared, or the same error) on every ordering of the
\* rows it reads, and the statistics reported for the batch, computed on the
\* rows sorted by temperature, are those of the rows in arrival order.
C13_FitOrderIndependent ==
    (pc \in {"done", "crashed"} /\ FitRows # <<>>) =>
        /\ \A p \in Permutations(1..Len(FitRows)) :
              PlotArrhenius(Temps(Reordered(FitRows, p)), KInts(Reordered(FitRows, p)))
                  = PlotArrhenius(Temps(FitRows), KInts(FitRows))
        /\ stats.err = "" => stats = PlotArrhenius(Temps(FitRows), KInts(FitRows))

\* a fitted batch whose rows arrived out of temperature order and gave a
\* finite activation energy
C13_Witness ==
    /\ pc = "done" /\ stats.err = ""
    /\ IsFinite(stats.E_a_kJ_mol) /\ stats.E_a_kJ_mol # Int2F(0)
    /\ \E k \in 1..(Len(FitRows) - 1) :
          FitRows[k].temperature_k > FitRows[k + 1].temperature_k

\* the least-squares line over the samples of the latest run that mask keeps
InlierFit(mask) ==
    LinearFit(SelectMask(Column(run.df, "Time_s"), mask),
              SelectMask(Column(run.df, "concentration"), mask))

\* C14: the is_outlier column holds one boolean per sample of the run; after
\* a robust fit a sample is flagged exactly when it is outside the
\* estimator's inlier mask, and the slope, intercept and r_squared kept (and
\* returned) are those of the least-squares line over the inliers alone;
\* after an ordinary fit no sample is flagged.
C14_OutlierMaskAndInlierFit ==
    (Estimated /\ run.est.fitted /\ Locs(run.df, "is_outlier") # {}) =>
        /\ Len(Column(run.df, "is_outlier")) = Len(files[run.file].t)
        /\ run.est.used_robust =>
              /\ Len(run.est.inlier_mask) = Len(files[run.file].t)
              /\ \A j \in 1..Len(run.est.inlier_mask) :
                    Column(run.df, "is_outlier")[j] = ~run.est.inlier_mask[j]
              /\ run.est.slope = InlierFit(run.est.inlier_mask).coef
              /\ run.est.intercept = InlierFit(run.est.inlier_mask).intercept
              /\ run.est.r_squared =
                    R2Score(SelectMask(Column(run.df, "concentration"),
                                       run.est.inlier_mask),
                            Predict(InlierFit(run.est.inlier_mask),
                                    SelectMask(Column(run.df, "Time_s"),
                                               run.est.inlier_mask)))
              /\ run.err = "" =>
                    /\ run.k_obs = FNeg(run.est.slope)
                    /\ run.r_squared = run.est.r_squared
        /\ ~run.est.used_robust =>
              \A j \in 1..Len(Column(run.df, "is_outlier")) :
                  ~Column(run.df, "is_outlier")[j]

\* a robust fit over five samples that flags one of them and fits the other
\* four exactly, where the line over all five does not
C14_Witness ==
    /\ run.stage = "done" /\ run.est.used_robust
    /\ Len(Column(run.df, "is_outlier")) = 5
    /\ Cardinality({j \in 1..5 : Column(run.df, "is_outlier")[j]}) = 1
    /\ run.r_squared = Int2F(1)
    /\ R2Score(Column(run.df, "concentration"),
               Predict(InlierFit(run.est.inlier_mask), Column(run.df, "Time_s")))
          # Int2F(1)

\* C15: after calculate_rate and calculate_intrinsic_rate the run's table
\* holds the columns it had after normalization, with their values
\* unchanged, and no added column other than concentration and is_outlier.
C15_TableImmutableExceptDerived ==
    run.stage = "done" =>
        /\ \A k \in 1..Len(InputNames) :
              run.df.vals[k] = ReadCsv(files[run.file]).vals[k]
        /\ \A k \in (Len(InputNames) + 1)..Len(run.df.labels) :
              run.df.labels[k] \in {"concentration", "is_outlier"}

\* plot_arrhenius (or the dashboard's fit) has been called for the batch
AggregationRan == pc = "crashed" \/ stats # NoStats

\* C16: the runs are processed one after the other in batch order (the
\* latest run is the one before the loop position, rows and messages appear
\* in file order); the Arrhenius fit runs at most once, only after the loop
\* has passed the last file and only when a run succeeded; it is computed
\* from the collected rows alone, and nothing happens after it.
C16_SequentialBatchThenAggregate ==
    /\ i \in 1..(Len(files) + 1)
    /\ run.file \in 0..(i - 1)
    /\ \A k \in 1..Len(results) : results[k].filename < i
    /\ \A k \in 1..(Len(results) - 1) : results[k].filename < results[k + 1].filename
    /\ \A m \in 1..(Len(log) - 1) :
          (log[m].file > 0 /\ log[m + 1].file > 0) => log[m].file < log[m + 1].file
    /\ Cardinality({m \in 1..Len(log) : log[m].kind = "Arrhenius"}) <= 1
    /\ AggregationRan =>
          /\ i = Len(files) + 1
          /\ results # <<>>
          /\ pc \in {"done", "crashed"}
          /\ ~ENABLED Next
    /\ stats.err = "" =>
          stats = PlotArrhenius(Temps(SortByTemp(FitRows)), KInts(SortByTemp(FitRows)))
    /\ results = <<>> => (stats = NoStats /\ report = <<>> /\ pc # "crashed")

\* a finished batch of several files, one of which failed, aggregated once
\* at the end
C16_Witness ==
    /\ pc = "done" /\ stats.err = ""
    /\ Len(files) >= 3 /\ i = Len(files) + 1
    /\ Len(results) >= 2 /\ Len(results) < Len(files)
    /\ log[Len(log)] = Msg("Arrhenius", 0)

\* the collected rows that carry a temperature, in arrival order
WithTemperature == SelectSeq(results, LAMBDA row : row.temperature_k # NoTemp)

\* C17: the Arrhenius fit reads only rows with a parsed temperature. In the
\* orchestrator a file whose name has no digits followed by K is skipped
\* with a message, is never estimated, and has no row in the results or the
\* report; every row carries the temperature parsed from its file's name.
\* In the dashboard such a file is estimated and, when it succeeds, listed
\* with no temperature; the fit runs exactly when more than 2 rows with a
\* temperature remain, and is computed from those rows.
C17_FitReadsParsedTemperatures ==
    /\ \A k \in 1..Len(results) :
          results[k].temperature_k = ExtractTemperature(files[results[k].filename].name)
    /\ env.mode = "orchestrator" =>
          /\ \A k \in 1..Len(results) : results[k].temperature_k # NoTemp
          /\ \A k \in 1..Len(report) : report[k].temperature_k # NoTemp
          /\ run.file > 0 => ExtractTemperature(files[run.file].name) # NoTemp
          /\ \A j \in 1..(i - 1) :
                ExtractTemperature(files[j].name) = NoTemp =>
                    /\ RowCount(j) = 0
                    /\ \E m \in 1..Len(log) : log[m] = Msg("Skipping", j)
                    /\ \A m \in 1..Len(log) : log[m] # Msg("Error", j)
    /\ env.mode = "dashboard" =>
          /\ run.file = i - 1
          /\ \A j \in 1..(i - 1) :
                (ExtractTemperature(files[j].name) = NoTemp
                    /\ RunPipeline(j, files[j], env).err = "") =>
                        \E k \in 1..Len(results) :
                            results[k].filename = j /\ results[k].temperature_k = NoTemp
          /\ AggregationRan => Len(WithTemperature) > 2
          /\ (pc = "done" /\ Len(WithTemperature) > 2) => stats.err = ""
          /\ (pc = "done" /\ results # <<>> /\ Len(WithTemperature) <= 2) =>
                log[Len(log)] = Msg("NeedThreeRuns", 0)
    /\ stats.err = "" =>
          stats = PlotArrhenius(Temps(SortByTemp(WithTemperature)),
                                KInts(SortByTemp(WithTemperature)))

\* a dashboard batch that listed a run without a temperature and fitted the
\* three runs with temperatures
C17_Witness ==
    /\ env.mode = "dashboard" /\ pc = "done" /\ stats.err = ""
    /\ \E k \in 1..Len(results) : results[k].temperature_k = NoTemp
    /\ Len(WithTemperature) = 3
    /\ IsFinite(stats.E_a_kJ_mol)

=============================================================================
